---------------------------- MODULE Spec2Model ----------------------------
(***************************************************************************)
(* Model of scripts/upload-assets.js: one run of the release-assets        *)
(* action against a model of the hosting service.                          *)
(*                                                                         *)
(* Strings are sequences of one-character strings, so that trim(),         *)
(* startsWith() and replace() are computed.  A JSON text is a sequence of  *)
(* tokens.  A file path is its sequence of segments.                       *)
(*                                                                         *)
(* One action models the code between two awaits: the remote call, the     *)
(* service's answer and everything the script does with it up to the next  *)
(* remote call (or the end of the run).                                    *)
(***************************************************************************)
EXTENDS Integers, Sequences, FiniteSets, TLC

VARIABLES
    \* inputs of the run (params of module.exports)
    assetPathsInput, releaseTag, releaseName, denyOverwrite, ref,
    \* the hosting service
    releases, assets, nextAssetId, externals,
    \* the assets the service held when the run started (never changed)
    initialAssets,
    \* locals of the script
    pc, outcome, denyOverwriteBool, assetPaths, targetTag, trimmedReleaseName,
    release, page, patIdx, filesToUpload, uniqueFilesToUpload, fileIdx,
    existingAsset, downloadUrls,
    \* the sink core.setOutput('download_urls', ...)
    output,
    \* history of the remote calls issued by the run, with their answers
    calls

vars == <<assetPathsInput, releaseTag, releaseName, denyOverwrite, ref,
          releases, assets, nextAssetId, externals, initialAssets,
          pc, outcome, denyOverwriteBool, assetPaths, targetTag,
          trimmedReleaseName, release, page, patIdx, filesToUpload,
          uniqueFilesToUpload, fileIdx, existingAsset, downloadUrls,
          output, calls>>

inputVars == <<assetPathsInput, releaseTag, releaseName, denyOverwrite, ref,
               initialAssets>>

\* JavaScript's undefined / null (both falsy; the script tests only !release)
Undefined == [undefined |-> TRUE]

\* download_urls before core.setOutput is called
Unset == [unset |-> TRUE]

----------------------------------------------------------------------------
(* Bounds of the model *)

\* longest asset_paths array
MaxPatterns == 2

\* most full pages of unrelated releases in front of the interesting ones
MaxFillPages == 1

\* most uploads to the release by other actors during the run
MaxExternal == 1

\* per_page of listReleases
PerPage == 100

----------------------------------------------------------------------------
(* Strings *)

Str_refs_tags == <<"r", "e", "f", "s", "/", "t", "a", "g", "s", "/">>
Str_refs_heads_m == <<"r", "e", "f", "s", "/", "h", "e", "a", "d", "s", "/", "m">>

RECURSIVE TrimStart(_)
TrimStart(s) ==
    IF s # <<>> /\ Head(s) = " " THEN TrimStart(Tail(s)) ELSE s

RECURSIVE TrimEnd(_)
TrimEnd(s) ==
    IF s # <<>> /\ s[Len(s)] = " " THEN TrimEnd(SubSeq(s, 1, Len(s) - 1)) ELSE s

\* String.prototype.trim
Trim(s) == TrimEnd(TrimStart(s))

\* String.prototype.startsWith
StartsWith(s, p) == Len(s) >= Len(p) /\ SubSeq(s, 1, Len(p)) = p

\* positions at which p occurs in s
Occurrences(s, p) ==
    {i \in 1..(Len(s) - Len(p) + 1) : SubSeq(s, i, i + Len(p) - 1) = p}

\* String.prototype.replace with a string pattern: the first occurrence only
ReplaceFirst(s, p, r) ==
    IF Occurrences(s, p) = {} THEN s
    ELSE LET i == CHOOSE k \in Occurrences(s, p) :
                      \A j \in Occurrences(s, p) : k <= j
         IN  SubSeq(s, 1, i - 1) \o r \o SubSeq(s, i + Len(p), Len(s))

\* truthiness of a string
Truthy(s) == s # <<>>

----------------------------------------------------------------------------
(* JSON.parse of asset_paths *)

Punctuation == {"[", "]", "{", "}", ","}

\* the tokens between the brackets are strings separated by commas
IsItemList(t) ==
    \/ t = <<>>
    \/ /\ Len(t) % 2 = 1
       /\ \A i \in 1..Len(t) :
             IF i % 2 = 1 THEN t[i] \notin Punctuation ELSE t[i] = ","

IsArrayText(t) ==
    /\ Len(t) >= 2
    /\ t[1] = "["
    /\ t[Len(t)] = "]"
    /\ IsItemList(SubSeq(t, 2, Len(t) - 1))

IsObjectText(t) == t = <<"{", "}">>

IsStringText(t) == Len(t) = 1 /\ t[1] \notin Punctuation

\* the items of an array text
ArrayItems(t) ==
    LET inner == SubSeq(t, 2, Len(t) - 1)
    IN  [k \in 1..((Len(inner) + 1) \div 2) |-> inner[2 * k - 1]]

\* JSON.parse: throws on a malformed text
JSONParse(t) ==
    IF IsArrayText(t) THEN [ok |-> TRUE, isArray |-> TRUE, items |-> ArrayItems(t)]
    ELSE IF IsObjectText(t) \/ IsStringText(t)
         THEN [ok |-> TRUE, isArray |-> FALSE, items |-> <<>>]
         ELSE [ok |-> FALSE, isArray |-> FALSE, items |-> <<>>]

\* the JSON text of an array of strings
RECURSIVE JoinItems(_)
JoinItems(ps) ==
    IF ps = <<>> THEN <<>>
    ELSE IF Len(ps) = 1 THEN <<ps[1]>>
    ELSE <<ps[1], ",">> \o JoinItems(Tail(ps))

ArrayText(ps) == <<"[">> \o JoinItems(ps) \o <<"]">>

----------------------------------------------------------------------------
(* The file system and @actions/glob.  The tree is fixed:                  *)
(*   d1/a  d1/b  d2/a   regular files                                      *)
(*   d1/s               a directory                                        *)

Path_d1_a == <<"d1", "a">>
Path_d1_b == <<"d1", "b">>
Path_d2_a == <<"d2", "a">>
Path_d1_s == <<"d1", "s">>

\* fs.statSync(match).isFile()
IsFile(p) == p \in {Path_d1_a, Path_d1_b, Path_d2_a}

Patterns == {"d1/*", "*/a", "d1/s", "m/*"}

\* globber.glob(): the matches of a pattern, files and directories
GlobMatches(pattern) ==
    CASE pattern = "d1/*" -> <<Path_d1_a, Path_d1_b, Path_d1_s>>
      [] pattern = "*/a"  -> <<Path_d1_a, Path_d2_a>>
      [] pattern = "d1/s" -> <<Path_d1_s>>
      [] OTHER            -> <<>>

\* path.basename
Basename(p) == p[Len(p)]

\* the regular files among the matches of a pattern, in match order
FilesOf(pattern) == SelectSeq(GlobMatches(pattern), IsFile)

\* no deduplication
Unique_KeepsRepeats(xs) == xs

\* [...new Set(xs)]: first occurrences, in order
RECURSIVE Unique(_)
Unique(xs) ==
    IF xs = <<>> THEN <<>>
    ELSE LET init == Unique(SubSeq(xs, 1, Len(xs) - 1))
             last == xs[Len(xs)]
         IN  IF \E i \in 1..Len(init) : init[i] = last
             THEN init
             ELSE Append(init, last)

----------------------------------------------------------------------------
(* The hosting service *)

TagV == <<"v">>
TagW == <<"w">>
NameN == <<"N">>
NameM == <<"M">>

AssetNames == {"a", "b", "z"}

NameIndex(nm) == CASE nm = "a" -> 1 [] nm = "b" -> 2 [] OTHER -> 3

\* a release as the service lists it; ids are assigned by list position
Rel(tag, name, draft) == [tag_name |-> tag, name |-> name, draft |-> draft]

PubVN == Rel(TagV, NameN, FALSE)
PubVM == Rel(TagV, NameM, FALSE)
DraftVN == Rel(TagV, NameN, TRUE)
PubWN == Rel(TagW, NameN, FALSE)
Filler == Rel(<<"o">>, <<"O">>, TRUE)

CoreKinds == {PubVN, PubVM, DraftVN, PubWN}

\* a tag names at most one published release
TagsUnique(rs) ==
    \A i, j \in 1..Len(rs) :
        (~rs[i].draft /\ ~rs[j].draft /\ rs[i].tag_name = rs[j].tag_name) => i = j

WithIds(rs) ==
    [i \in 1..Len(rs) |->
        [id |-> i, tag_name |-> rs[i].tag_name, name |-> rs[i].name,
         draft |-> rs[i].draft]]

Fill(n) == [i \in 1..n |-> Filler]

\* the response body of a release: the release with its assets at this moment
ReleaseData(r, as) ==
    [id |-> r.id, tag_name |-> r.tag_name, name |-> r.name, draft |-> r.draft,
     assets |-> {a \in as : a.release_id = r.id}]

\* browser_download_url of an asset: a token of the asset, not of its name
UrlOf(id, nm) == <<nm, id>>

NewAsset(id, rid, nm) ==
    [id |-> id, release_id |-> rid, name |-> nm,
     browser_download_url |-> UrlOf(id, nm)]

\* getReleaseByTag: published releases only
PublishedByTag(rs, tag) ==
    {i \in 1..Len(rs) : ~rs[i].draft /\ rs[i].tag_name = tag}

\* listReleases: one page of the full list, drafts included
PageOf(rs, p) ==
    SubSeq(rs, (p - 1) * PerPage + 1,
           IF p * PerPage < Len(rs) THEN p * PerPage ELSE Len(rs))

\* uploadReleaseAsset answers 422 already_exists when the name is taken
NameTaken(as, rid, nm) == \E a \in as : a.release_id = rid /\ a.name = nm

----------------------------------------------------------------------------
(* The script: pure steps *)

\* a JavaScript value handed over as denyOverwrite
JsString(v) == [type |-> "string", str |-> v, bool |-> FALSE]
JsBoolean(b) == [type |-> "boolean", str |-> "", bool |-> b]

\* the value the action passes when the workflow gives no deny_overwrite
DenyOverwriteDefault == "true"

\* denyOverwrite === 'true' || denyOverwrite === true
DenyOverwriteBool(d) ==
    \/ d.type = "string" /\ d.str = "true"
    \/ d.type = "boolean" /\ d.bool

\* !Array.isArray(assetPaths) || assetPaths.length === 0
NotNonEmptyArray(parsed) == ~parsed.isArray \/ parsed.items = <<>>

\* the tag to look for: the input, or else the tag of a refs/tags/ ref
DeriveTag(tag, r) ==
    IF Truthy(tag) THEN tag
    ELSE IF StartsWith(r, Str_refs_tags) THEN ReplaceFirst(r, Str_refs_tags, <<>>)
    ELSE tag

\* no tag, no tag ref and no name: the script gives up
NoTarget(tag, r, name) ==
    ~Truthy(tag) /\ ~StartsWith(r, Str_refs_tags) /\ ~Truthy(name)

\* the name validation of line 85 left out
NameMismatch_Unchecked(rel, name) == FALSE

\* trimmedReleaseName && release.name !== trimmedReleaseName
NameMismatch(rel, name) == Truthy(name) /\ rel.name # name

\* every error of getReleaseByTag taken for a not-found
FallsBackToListing_Always(status) == TRUE

\* every error of getReleaseByTag rethrown
FallsBackToListing_Never(status) == FALSE

\* error.status === 404 in the catch of getReleaseByTag
FallsBackToListing(status) == status = 404

\* the predicate of releases.find
Matches(r, tag, name) ==
    IF Truthy(tag) /\ Truthy(name) THEN r.tag_name = tag /\ r.name = name
    ELSE IF Truthy(tag) THEN r.tag_name = tag
    ELSE r.name = name

\* Array.prototype.find: the index of the first match, 0 when there is none
FindIndex(rs, tag, name) ==
    IF \E i \in 1..Len(rs) : Matches(rs[i], tag, name)
    THEN CHOOSE i \in 1..Len(rs) :
             /\ Matches(rs[i], tag, name)
             /\ \A j \in 1..(i - 1) : ~Matches(rs[j], tag, name)
    ELSE 0

\* page++ forgotten
NextPage_Same(p) == p

\* page++
NextPage(p) == p + 1

\* a full page taken for the last one
LastPage_OffByOne(rs) == Len(rs) <= PerPage

\* releases.length < 100
LastPage(rs) == Len(rs) < PerPage

\* the asset looked up in the release as it is now, not in the snapshot
FindAsset_Refreshed(snapshot, fileName) ==
    {a \in assets : a.release_id = release.id /\ a.name = fileName}

\* a predicate that accepts every asset (a.name = fileName)
FindAsset_AnyName(snapshot, fileName) == snapshot

\* release.assets.find(a => a.name === fileName); names are unique in a release
FindAsset(snapshot, fileName) == {a \in snapshot : a.name = fileName}

\* the deny branch of line 241 left out
OnConflict_IgnoresDeny(deny, snapshot, fileName) ==
    IF {a \in snapshot : a.name = fileName} = {} THEN "InconsistentState"
    ELSE "delete"

\* what the script does with a 422 already_exists on the first upload
OnConflict(deny, snapshot, fileName) ==
    IF deny THEN "AssetConflict"
    ELSE IF FindAsset(snapshot, fileName) = {} THEN "InconsistentState"
    ELSE "delete"

\* the conflict handling applied to the retry as well
OnRetryConflict_DeletesAgain == "delete"

\* a 422 already_exists on the retry is rethrown like any other error
OnRetryConflict == "TransportError"

\* the URL of the asset found in the snapshot pushed instead
RetryUrl_OfExisting(asset, existing) == existing.browser_download_url

\* the URL pushed after the retry upload
RetryUrl(asset, existing) == asset.browser_download_url

----------------------------------------------------------------------------
(* The script: control *)

Goto(label) == pc' = label /\ UNCHANGED <<outcome, output>>

\* the output written on the way out of a failed run
Abort_SetsOutput(kind) ==
    pc' = "done" /\ outcome' = kind /\ output' = downloadUrls

\* core.setFailed + return, or an uncaught throw: the run ends, no output
Abort(kind) == pc' = "done" /\ outcome' = kind /\ UNCHANGED output

\* core.setOutput('download_urls', JSON.stringify(downloadUrls))
Finish(urls) == pc' = "done" /\ outcome' = "success" /\ output' = urls

Record(call) == calls' = Append(calls, call)

serviceVars == <<releases, assets, nextAssetId, externals>>
collectVars == <<patIdx, filesToUpload, uniqueFilesToUpload>>
uploadVars == <<fileIdx, existingAsset, downloadUrls>>
parsedVars == <<denyOverwriteBool, assetPaths, targetTag, trimmedReleaseName>>

\* lines 21-69 and 105: parse and validate the inputs, pick the first lookup
ParseInputs ==
    /\ pc = "start"
    /\ LET parsed == JSONParse(assetPathsInput)
           tag == Trim(releaseTag)
           name == Trim(releaseName)
       IN  /\ denyOverwriteBool' = DenyOverwriteBool(denyOverwrite)
           /\ IF ~parsed.ok \/ NotNonEmptyArray(parsed)
              THEN /\ Abort("InvalidInput")
                   /\ UNCHANGED <<assetPaths, targetTag, trimmedReleaseName, page>>
              ELSE /\ assetPaths' = parsed.items
                   /\ trimmedReleaseName' = name
                   /\ IF NoTarget(tag, ref, name)
                      THEN /\ Abort("InvalidInput")
                           /\ UNCHANGED <<targetTag, page>>
                      ELSE /\ targetTag' = DeriveTag(tag, ref)
                           /\ IF Truthy(targetTag')
                              THEN Goto("getReleaseByTag") /\ UNCHANGED page
                              ELSE IF Truthy(name)
                                   THEN Goto("listReleases") /\ page' = 1
                                   ELSE Goto("glob") /\ UNCHANGED page
    /\ UNCHANGED <<inputVars, serviceVars, release, collectVars, uploadVars, calls>>

\* lines 69-105: the indexed lookup by tag and the name validation
GetReleaseByTag ==
    /\ pc = "getReleaseByTag"
    /\ \/ \E i \in PublishedByTag(releases, targetTag) :
             /\ release' = ReleaseData(releases[i], assets)
             /\ Record([op |-> "getReleaseByTag", tag |-> targetTag, result |-> "ok"])
             /\ IF NameMismatch(release', trimmedReleaseName)
                THEN Abort("ReleaseNameMismatch")
                ELSE Goto("glob")
             /\ UNCHANGED page
       \/ /\ PublishedByTag(releases, targetTag) = {}
          /\ Record([op |-> "getReleaseByTag", tag |-> targetTag, result |-> "notFound"])
          /\ release' = Undefined
          /\ IF FallsBackToListing(404)
             THEN Goto("listReleases") /\ page' = 1
             ELSE Abort("TransportError") /\ UNCHANGED page
       \/ /\ Record([op |-> "getReleaseByTag", tag |-> targetTag, result |-> "error"])
          /\ IF FallsBackToListing(500)
             THEN Goto("listReleases") /\ page' = 1 /\ release' = Undefined
             ELSE Abort("TransportError") /\ UNCHANGED <<page, release>>
    /\ UNCHANGED <<inputVars, serviceVars, parsedVars, collectVars, uploadVars>>

\* lines 105-176: one page of the listing
ListReleases ==
    /\ pc = "listReleases"
    /\ \/ LET data == PageOf(releases, page)
              i == FindIndex(data, targetTag, trimmedReleaseName)
          IN  /\ Record([op |-> "listReleases", page |-> page, result |-> "ok"])
              /\ IF i # 0
                 THEN /\ release' = ReleaseData(data[i], assets)
                      /\ Goto("glob")
                      /\ UNCHANGED page
                 ELSE /\ UNCHANGED release
                      /\ IF LastPage(data)
                         THEN Abort("ReleaseNotFound") /\ UNCHANGED page
                         ELSE Goto("listReleases") /\ page' = NextPage(page)
       \/ /\ Record([op |-> "listReleases", page |-> page, result |-> "error"])
          /\ Abort("TransportError")
          /\ UNCHANGED <<page, release>>
    /\ UNCHANGED <<inputVars, serviceVars, parsedVars, collectVars, uploadVars>>

\* lines 178-217: expand one pattern; after the last one, deduplicate
Glob ==
    /\ pc = "glob"
    /\ LET files == FilesOf(assetPaths[patIdx])
           all == filesToUpload \o files
       IN  /\ filesToUpload' = all
           /\ patIdx' = patIdx + 1
           /\ IF patIdx < Len(assetPaths)
              THEN Goto("glob") /\ UNCHANGED uniqueFilesToUpload
              ELSE /\ uniqueFilesToUpload' = Unique(all)
                   /\ IF uniqueFilesToUpload' = <<>>
                      THEN Abort("NoFilesFound")
                      ELSE Goto("upload")
    /\ UNCHANGED <<inputVars, serviceVars, parsedVars, release, page,
                   uploadVars, calls>>


\* the file the loop of line 221 is at
FileName == Basename(uniqueFilesToUpload[fileIdx])

\* the new URL put in front of the list instead of behind it
NextFile_Unshift(urls) ==
    /\ downloadUrls' = <<urls[Len(urls)]>> \o SubSeq(urls, 1, Len(urls) - 1)
    /\ IF fileIdx < Len(uniqueFilesToUpload)
       THEN Goto("upload") /\ fileIdx' = fileIdx + 1
       ELSE Finish(downloadUrls') /\ UNCHANGED fileIdx

\* the end of one iteration of the upload loop: the next file, or lines 290-302
NextFile(urls) ==
    /\ downloadUrls' = urls
    /\ IF fileIdx < Len(uniqueFilesToUpload)
       THEN Goto("upload") /\ fileIdx' = fileIdx + 1
       ELSE Finish(urls) /\ UNCHANGED fileIdx

\* the service stores an uploaded file as a new asset of the release
StoreAsset(rid, nm) ==
    /\ assets' = assets \cup {NewAsset(nextAssetId, rid, nm)}
    /\ nextAssetId' = nextAssetId + 1

\* lines 221-251 and 275-287: the first upload of a file
Upload ==
    /\ pc = "upload"
    /\ IF release = Undefined
       THEN \* release.id throws a TypeError before the call is issued
            /\ Abort("TypeError")
            /\ UNCHANGED <<assets, nextAssetId, uploadVars, calls>>
       ELSE \/ /\ ~NameTaken(assets, release.id, FileName)
               /\ StoreAsset(release.id, FileName)
               /\ Record([op |-> "uploadAsset", release_id |-> release.id,
                          name |-> FileName, file |-> fileIdx, result |-> "ok",
                          url |-> UrlOf(nextAssetId, FileName)])
               /\ NextFile(Append(downloadUrls, UrlOf(nextAssetId, FileName)))
               /\ UNCHANGED existingAsset
            \/ /\ NameTaken(assets, release.id, FileName)
               /\ Record([op |-> "uploadAsset", release_id |-> release.id,
                          name |-> FileName, file |-> fileIdx,
                          result |-> "conflict", url |-> <<>>])
               /\ LET todo == OnConflict(denyOverwriteBool, release.assets, FileName)
                  IN  IF todo = "delete"
                      THEN /\ existingAsset' \in FindAsset(release.assets, FileName)
                           /\ Goto("delete")
                      ELSE /\ Abort(todo)
                           /\ UNCHANGED existingAsset
               /\ UNCHANGED <<assets, nextAssetId, fileIdx, downloadUrls>>
            \/ /\ Record([op |-> "uploadAsset", release_id |-> release.id,
                          name |-> FileName, file |-> fileIdx,
                          result |-> "error", url |-> <<>>])
               /\ Abort("TransportError")
               /\ UNCHANGED <<assets, nextAssetId, uploadVars>>
    /\ UNCHANGED <<inputVars, releases, externals, parsedVars, release, page,
                   collectVars>>

\* lines 255-262: delete the asset the snapshot names
DeleteAsset ==
    /\ pc = "delete"
    /\ \/ /\ \E a \in assets : a.id = existingAsset.id
          /\ assets' = {a \in assets : a.id # existingAsset.id}
          /\ Record([op |-> "deleteAsset", asset_id |-> existingAsset.id,
                     name |-> existingAsset.name, file |-> fileIdx,
                     result |-> "ok"])
          /\ Goto("retry")
       \/ /\ ~\E a \in assets : a.id = existingAsset.id
          /\ Record([op |-> "deleteAsset", asset_id |-> existingAsset.id,
                     name |-> existingAsset.name, file |-> fileIdx,
                     result |-> "notFound"])
          /\ Abort("TransportError")
          /\ UNCHANGED assets
       \/ /\ Record([op |-> "deleteAsset", asset_id |-> existingAsset.id,
                     name |-> existingAsset.name, file |-> fileIdx,
                     result |-> "error"])
          /\ Abort("TransportError")
          /\ UNCHANGED assets
    /\ UNCHANGED <<inputVars, releases, nextAssetId, externals, parsedVars,
                   release, page, collectVars, uploadVars>>

\* lines 264-282: the single retry of the upload
RetryUpload ==
    /\ pc = "retry"
    /\ \/ /\ ~NameTaken(assets, release.id, FileName)
          /\ StoreAsset(release.id, FileName)
          /\ Record([op |-> "uploadAsset", release_id |-> release.id,
                     name |-> FileName, file |-> fileIdx, result |-> "ok",
                     url |-> UrlOf(nextAssetId, FileName)])
          /\ NextFile(Append(downloadUrls,
                 RetryUrl(NewAsset(nextAssetId, release.id, FileName),
                          existingAsset)))
       \/ /\ NameTaken(assets, release.id, FileName)
          /\ Record([op |-> "uploadAsset", release_id |-> release.id,
                     name |-> FileName, file |-> fileIdx,
                     result |-> "conflict", url |-> <<>>])
          /\ IF OnRetryConflict = "delete"
             THEN Goto("delete")
             ELSE Abort(OnRetryConflict)
          /\ UNCHANGED <<assets, nextAssetId, fileIdx, downloadUrls>>
       \/ /\ Record([op |-> "uploadAsset", release_id |-> release.id,
                     name |-> FileName, file |-> fileIdx,
                     result |-> "error", url |-> <<>>])
          /\ Abort("TransportError")
          /\ UNCHANGED <<assets, nextAssetId, fileIdx, downloadUrls>>
    /\ UNCHANGED <<inputVars, releases, externals, parsedVars, release, page,
                   collectVars, existingAsset>>

\* another actor uploads an asset to the release while the run is uploading
\* (before the snapshot is taken this is a different initial asset list)
ExternalUpload ==
    /\ pc \in {"upload", "delete", "retry"}
    /\ release # Undefined
    /\ externals < MaxExternal
    /\ \E nm \in {"a", "b"} :
          /\ ~NameTaken(assets, release.id, nm)
          /\ StoreAsset(release.id, nm)
    /\ externals' = externals + 1
    /\ UNCHANGED <<inputVars, releases, pc, outcome, output, parsedVars,
                   release, page, collectVars, uploadVars, calls>>

----------------------------------------------------------------------------
(* Initial states *)

\* the unrelated releases in front: none, or up to a page boundary
FillCounts ==
    {0} \cup UNION {{k * PerPage - 1, k * PerPage} : k \in 1..MaxFillPages}

\* the interesting releases: at most two, a tag published at most once
CoreLists ==
    {rs \in UNION {[1..n -> CoreKinds] : n \in 0..2} : TagsUnique(rs)}

ReleaseLists == {WithIds(Fill(n) \o rs) : n \in FillCounts, rs \in CoreLists}

\* every interesting release starts with the same asset names
InitialAssets(rs, names) ==
    {NewAsset(10 * i + NameIndex(nm), i, nm) :
        i \in {j \in 1..Len(rs) : rs[j].tag_name \in {TagV, TagW}}, nm \in names}

PatternLists == UNION {[1..n -> Patterns] : n \in 1..MaxPatterns}

AssetPathsTexts ==
    {ArrayText(ps) : ps \in PatternLists}
        \cup {<<>>, <<"[", "d1/*">>, <<"{", "}">>, <<"d1/*">>, <<"[", "]">>}

DenyInputs ==
    {JsString(DenyOverwriteDefault), JsString("false"), JsString("True"),
     JsBoolean(TRUE), JsBoolean(FALSE)}

TagInputs == {<<>>, <<" ", "v">>, <<"x">>}
NameInputs == {<<>>, <<"N", " ">>, <<"M">>}
Refs == {Str_refs_heads_m, Str_refs_tags \o TagV, Str_refs_tags}

\* runs that vary the target and the release list
InitResolve ==
    /\ releaseTag \in TagInputs
    /\ releaseName \in NameInputs
    /\ ref \in Refs
    /\ releases \in ReleaseLists
    /\ assetPathsInput = ArrayText(<<"d1/*">>)
    /\ denyOverwrite = JsString("false")
    /\ assets = InitialAssets(releases, {"a", "z"})

\* runs that vary the files, the policy and the assets already there
InitReconcile ==
    /\ releaseTag = TagV
    /\ releaseName = <<>>
    /\ ref = Str_refs_heads_m
    /\ releases \in {WithIds(<<PubVN>>), WithIds(<<DraftVN, PubWN>>)}
    /\ assetPathsInput \in AssetPathsTexts
    /\ denyOverwrite \in DenyInputs
    /\ \E names \in {{}, {"a"}, {"a", "b"}, {"b", "z"}} :
          assets = InitialAssets(releases, names)

Init ==
    /\ InitResolve \/ InitReconcile
    /\ initialAssets = assets
    /\ nextAssetId = 10 * (Len(releases) + 1)
    /\ externals = 0
    /\ pc = "start"
    /\ outcome = "running"
    /\ denyOverwriteBool = FALSE
    /\ assetPaths = <<>>
    /\ targetTag = <<>>
    /\ trimmedReleaseName = <<>>
    /\ release = Undefined
    /\ page = 1
    /\ patIdx = 1
    /\ filesToUpload = <<>>
    /\ uniqueFilesToUpload = <<>>
    /\ fileIdx = 1
    /\ existingAsset = Undefined
    /\ downloadUrls = <<>>
    /\ output = Unset
    /\ calls = <<>>

Next ==
    \/ ParseInputs
    \/ GetReleaseByTag
    \/ ListReleases
    \/ Glob
    \/ Upload
    \/ DeleteAsset
    \/ RetryUpload
    \/ ExternalUpload

Spec == Init /\ [][Next]_vars

\* every listReleases call is answered and the awaiting loop resumes
FairSpec == Spec /\ WF_vars(ListReleases)

----------------------------------------------------------------------------
(* Reading the history *)

CallIdx == 1..Len(calls)

IsUpload(c) == c.op = "uploadAsset"
IsDelete(c) == c.op = "deleteAsset"
IsList(c) == c.op = "listReleases"
IsOkUpload(c) == c.op = "uploadAsset" /\ c.result = "ok"
IsConflict(c) == c.op = "uploadAsset" /\ c.result = "conflict"

Failed == pc = "done" /\ outcome # "success"

\* the policy the caller asked for
DenyRequested == DenyOverwriteBool(denyOverwrite)

\* the file collection is over
Collected == assetPaths # <<>> /\ patIdx = Len(assetPaths) + 1

----------------------------------------------------------------------------
(* C1 *)

\* C1: with denyOverwrite = true no deleteAsset is ever called, and a
\* conflict answer to an upload is the last remote call of the run: the run
\* has ended with AssetConflict, the result holds only the URLs of the
\* uploads answered before it, and no output is set.
C1_DenyConflictEndsRun ==
    DenyRequested =>
        /\ \A i \in CallIdx : ~IsDelete(calls[i])
        /\ \A i \in CallIdx :
              IsConflict(calls[i]) =>
                  /\ i = Len(calls)
                  /\ pc = "done"
                  /\ outcome = "AssetConflict"
                  /\ output = Unset
                  /\ Len(downloadUrls) = Len(SelectSeq(calls, IsOkUpload))
                  /\ Len(downloadUrls) = calls[i].file - 1

\* a conflict on the second file of a longer plan, overwriting denied
C1_Witness ==
    /\ DenyRequested
    /\ outcome = "AssetConflict"
    /\ Len(downloadUrls) = 1
    /\ fileIdx = 2
    /\ Len(uniqueFilesToUpload) = 3

----------------------------------------------------------------------------
(* C2 *)

UrlsNamed(urls, nm) == {k \in 1..Len(urls) : urls[k][1] = nm}

\* C2: in a successful run with overwriting allowed, every upload that was
\* answered with a conflict is followed by the deletion of the asset of that
\* name and by a retry upload; the output holds exactly one URL of that name,
\* the one the retry returned, and it is not the URL of the deleted asset,
\* which is gone from the release.
C2_OverwriteReplaces ==
    outcome = "success" =>
        \A i \in CallIdx :
            IsConflict(calls[i]) =>
                /\ ~DenyRequested
                /\ i + 2 <= Len(calls)
                /\ IsDelete(calls[i + 1])
                /\ calls[i + 1].result = "ok"
                /\ calls[i + 1].name = calls[i].name
                /\ IsOkUpload(calls[i + 2])
                /\ calls[i + 2].name = calls[i].name
                /\ Cardinality(UrlsNamed(output, calls[i].name)) = 1
                /\ \A k \in UrlsNamed(output, calls[i].name) :
                      /\ output[k] = calls[i + 2].url
                      /\ output[k] # UrlOf(calls[i + 1].asset_id, calls[i].name)
                /\ \A a \in assets : a.id # calls[i + 1].asset_id

C2_Witness ==
    /\ outcome = "success"
    /\ \E i \in CallIdx : IsConflict(calls[i])
    /\ Len(output) >= 2

----------------------------------------------------------------------------
(* C3 *)

\* C3: download_urls is written only by a run that succeeded, after every
\* file of the plan was uploaded; a run that failed, for whatever reason and
\* after however many uploads, leaves it unset.
C3_NoOutputOnFailure ==
    /\ output # Unset =>
          /\ pc = "done"
          /\ outcome = "success"
          /\ Len(SelectSeq(calls, IsOkUpload)) = Len(uniqueFilesToUpload)
          /\ Len(output) = Len(uniqueFilesToUpload)
    /\ outcome # "success" => output = Unset

\* a run that failed after a first file was uploaded
C3_Witness ==
    /\ Failed
    /\ Len(downloadUrls) >= 1
    /\ output = Unset

----------------------------------------------------------------------------
(* C4 *)

\* C4: when a tag and a name are given and getReleaseByTag answers with a
\* release of another name, the run ends with ReleaseNameMismatch and that
\* lookup is its only remote call: listReleases is not called.
C4_MismatchEndsRun ==
    ( /\ calls # <<>>
      /\ calls[1].op = "getReleaseByTag"
      /\ calls[1].result = "ok"
      /\ Truthy(trimmedReleaseName)
      /\ \E i \in PublishedByTag(releases, targetTag) :
            releases[i].name # trimmedReleaseName )
    =>  /\ pc = "done"
        /\ outcome = "ReleaseNameMismatch"
        /\ Len(calls) = 1
        /\ \A i \in CallIdx : ~IsList(calls[i])

\* the mismatch, while the listing holds a draft of that tag and name
C4_Witness ==
    /\ outcome = "ReleaseNameMismatch"
    /\ \E i \in 1..Len(releases) :
          /\ releases[i].draft
          /\ releases[i].tag_name = targetTag
          /\ releases[i].name = trimmedReleaseName

----------------------------------------------------------------------------
(* C5 *)

DraftsByTag(rs, tag) == {i \in 1..Len(rs) : rs[i].draft /\ rs[i].tag_name = tag}

\* only a tag is given, and only drafts carry it
TagOnlyDraftOnly ==
    /\ Truthy(targetTag)
    /\ ~Truthy(trimmedReleaseName)
    /\ PublishedByTag(releases, targetTag) = {}
    /\ DraftsByTag(releases, targetTag) # {}

ResolutionError ==
    \E i \in CallIdx :
        calls[i].op \in {"getReleaseByTag", "listReleases"} /\ calls[i].result = "error"

\* C5: when only a tag is given and only a draft carries it, getReleaseByTag
\* answers not-found, the listing is searched next, and unless a remote call
\* of the resolution fails, the run leaves the resolution with that draft as
\* its release and uploads to it; it never ends with ReleaseNotFound.
C5_DraftFoundByListing ==
    (pc # "start" /\ TagOnlyDraftOnly) =>
        /\ outcome \notin {"ReleaseNotFound", "ReleaseNameMismatch", "InvalidInput"}
        /\ calls # <<>> =>
              /\ calls[1].op = "getReleaseByTag"
              /\ calls[1].result \in {"notFound", "error"}
        /\ Len(calls) >= 2 =>
              /\ calls[1].result = "notFound"
              /\ calls[2].op = "listReleases"
              /\ calls[2].page = 1
        /\ (pc \notin {"getReleaseByTag", "listReleases"} /\ ~ResolutionError) =>
              /\ release # Undefined
              /\ release.id \in DraftsByTag(releases, targetTag)
              /\ \A j \in DraftsByTag(releases, targetTag) : release.id <= j
        /\ \A i \in CallIdx :
              IsUpload(calls[i]) =>
                  calls[i].release_id \in DraftsByTag(releases, targetTag)

\* a successful run on a draft that lies on the second page of the listing
C5_Witness ==
    /\ TagOnlyDraftOnly
    /\ outcome = "success"
    /\ release.draft
    /\ release.id > PerPage

----------------------------------------------------------------------------
(* C6 *)

TagDerivable ==
    StartsWith(ref, Str_refs_tags) /\ Len(ref) > Len(Str_refs_tags)

InputInvalid ==
    \/ ~JSONParse(assetPathsInput).ok
    \/ ~JSONParse(assetPathsInput).isArray
    \/ JSONParse(assetPathsInput).items = <<>>
    \/ Trim(releaseTag) = <<>> /\ Trim(releaseName) = <<>> /\ ~TagDerivable

\* C6: invalid input (asset_paths not a non-empty JSON array, or no tag, no
\* name and no non-empty tag in the ref) ends the run with InvalidInput
\* before any remote call and any file collection; every other run has a
\* non-empty tag or name and uploads only with a resolved release.
C6_InvalidInputFirst ==
    pc # "start" =>
        /\ InputInvalid =>
              /\ outcome = "InvalidInput"
              /\ calls = <<>>
              /\ patIdx = 1
              /\ filesToUpload = <<>>
        /\ ~InputInvalid =>
              /\ outcome # "InvalidInput"
              /\ Truthy(targetTag) \/ Truthy(trimmedReleaseName)
              /\ pc \in {"upload", "delete", "retry"} => release # Undefined

----------------------------------------------------------------------------
(* C7 *)

ExplicitFalse == denyOverwrite \in {JsString("false"), JsBoolean(FALSE)}

\* C7: deleteAsset is called only when the caller set deny_overwrite to
\* false; with any other value, or none, a conflict ends the run with
\* AssetConflict.
C7_DenyByDefault ==
    /\ (\E i \in CallIdx : IsDelete(calls[i])) => ExplicitFalse
    /\ ~ExplicitFalse =>
          \A i \in CallIdx :
              IsConflict(calls[i]) => i = Len(calls) /\ outcome = "AssetConflict"

----------------------------------------------------------------------------
(* C8 *)

\* C8: uploads are issued in plan order, and in a successful run the output
\* has one URL per plan file, the i-th being the URL returned by the upload
\* of the i-th file that succeeded, under that file's base name.
C8_UrlsFollowPlan ==
    /\ \A i, j \in CallIdx :
          (i < j /\ IsUpload(calls[i]) /\ IsUpload(calls[j])) =>
              calls[i].file <= calls[j].file
    /\ outcome = "success" =>
          LET ok == SelectSeq(calls, IsOkUpload)
          IN  /\ Len(output) = Len(uniqueFilesToUpload)
              /\ Len(ok) = Len(uniqueFilesToUpload)
              /\ \A k \in 1..Len(ok) :
                    /\ ok[k].file = k
                    /\ ok[k].name = Basename(uniqueFilesToUpload[k])
                    /\ output[k] = ok[k].url
                    /\ output[k][1] = Basename(uniqueFilesToUpload[k])

\* files a then b, no asset in the way: [url(a), url(b)]
C8_Witness ==
    /\ outcome = "success"
    /\ uniqueFilesToUpload = <<Path_d1_a, Path_d1_b>>
    /\ \A i \in CallIdx : ~IsConflict(calls[i])
    /\ Len(output) = 2
    /\ output[1][1] = "a"
    /\ output[2][1] = "b"

----------------------------------------------------------------------------
(* C9 *)

\* the matches of the patterns from the k-th on, directories left out
RECURSIVE RegularMatches(_, _)
RegularMatches(ps, k) ==
    IF k > Len(ps) THEN <<>>
    ELSE LET m == GlobMatches(ps[k])
         IN  [i \in 1..Cardinality({j \in 1..Len(m) : IsFile(m[j])}) |->
                 m[CHOOSE j \in 1..Len(m) :
                       /\ IsFile(m[j])
                       /\ Cardinality({h \in 1..j : IsFile(m[h])}) = i]]
             \o RegularMatches(ps, k + 1)

\* the elements of xs that have no equal in front of them, in order
RECURSIVE FirstOccurrences(_)
FirstOccurrences(xs) ==
    IF xs = <<>> THEN <<>>
    ELSE LET rest == [i \in 1..(Len(xs) - 1) |-> xs[i + 1]]
             keep == {i \in 1..Len(rest) : rest[i] # xs[1]}
         IN  <<xs[1]>> \o
             FirstOccurrences(
                 [i \in 1..Cardinality(keep) |->
                     rest[CHOOSE j \in keep :
                              Cardinality({h \in keep : h <= j}) = i]])

\* C9: the plan has no path twice and no directory, and is the regular-file
\* matches of the patterns in pattern order with later repeats removed; it is
\* empty exactly when no pattern matched a regular file, and then the run
\* ends with NoFilesFound, after the last pattern, without an upload.
C9_PlanOfPatterns ==
    /\ Collected =>
          /\ uniqueFilesToUpload = FirstOccurrences(RegularMatches(assetPaths, 1))
          /\ \A i, j \in 1..Len(uniqueFilesToUpload) :
                uniqueFilesToUpload[i] = uniqueFilesToUpload[j] => i = j
          /\ \A i \in 1..Len(uniqueFilesToUpload) :
                uniqueFilesToUpload[i] # Path_d1_s
          /\ uniqueFilesToUpload = <<>> <=>
                \A k \in 1..Len(assetPaths) :
                    \A i \in 1..Len(GlobMatches(assetPaths[k])) :
                        ~IsFile(GlobMatches(assetPaths[k])[i])
          /\ uniqueFilesToUpload = <<>> <=> outcome = "NoFilesFound"
    /\ outcome = "NoFilesFound" =>
          Collected /\ \A i \in CallIdx : ~IsUpload(calls[i])
    /\ (\E i \in CallIdx : IsUpload(calls[i])) =>
          Collected /\ uniqueFilesToUpload # <<>>

\* overlapping patterns: a repeat removed and a directory dropped
C9_Witness ==
    /\ Collected
    /\ assetPaths = <<"d1/*", "*/a">>
    /\ Len(filesToUpload) = 4
    /\ uniqueFilesToUpload = <<Path_d1_a, Path_d1_b, Path_d2_a>>

----------------------------------------------------------------------------
(* C10 *)

\* the criterion in force
Satisfies(r) ==
    /\ Truthy(targetTag) => r.tag_name = targetTag
    /\ Truthy(trimmedReleaseName) => r.name = trimmedReleaseName

Satisfying == {i \in 1..Len(releases) : Satisfies(releases[i])}

ListingOver ==
    /\ pc # "listReleases"
    /\ \E i \in CallIdx : IsList(calls[i])
    /\ \A i \in CallIdx : IsList(calls[i]) => calls[i].result = "ok"

\* C10: a listing that ran to its end without a remote failure has picked
\* the first release of the whole list that satisfies the criterion, and has
\* ended the run with ReleaseNotFound exactly when the list has none.
C10_ListingIsLinearScan ==
    /\ ListingOver =>
          IF Satisfying = {}
          THEN outcome = "ReleaseNotFound" /\ release = Undefined
          ELSE /\ outcome # "ReleaseNotFound"
               /\ release # Undefined
               /\ release.id \in Satisfying
               /\ \A j \in Satisfying : release.id <= j
               /\ release.tag_name = releases[release.id].tag_name
               /\ release.name = releases[release.id].name
    /\ outcome = "ReleaseNotFound" => ListingOver /\ Satisfying = {}

\* a list of exactly one full page without a match: a second, empty page
C10_Witness ==
    /\ outcome = "ReleaseNotFound"
    /\ Len(releases) = PerPage
    /\ Len(calls) >= 2
    /\ calls[Len(calls)].op = "listReleases"
    /\ calls[Len(calls)].page = 2

----------------------------------------------------------------------------
(* C11 *)

ListCalls == SelectSeq(calls, IsList)

\* pages are requested as 1, 2, 3, ..., each one only after a full page
\* without a match, and never more than floor(N / pageSize) + 1 of them
PagesInOrder ==
    /\ \A k \in 1..Len(ListCalls) : ListCalls[k].page = k
    /\ Len(ListCalls) <= (Len(releases) \div PerPage) + 1
    /\ \A k \in 1..(Len(ListCalls) - 1) :
          /\ ListCalls[k].result = "ok"
          /\ Len(PageOf(releases, k)) = PerPage
          /\ \A i \in 1..PerPage : ~Satisfies(PageOf(releases, k)[i])
    /\ pc = "listReleases" => page = Len(ListCalls) + 1

\* C11: the pagination loop requests the pages 1, 2, ... in order, requests
\* no page after one that held a match or fewer than pageSize releases,
\* makes at most floor(N / pageSize) + 1 listReleases calls for a list of N
\* releases, and always comes to an end.
C11_PaginationTerminates ==
    /\ []PagesInOrder
    /\ (pc = "listReleases") ~> (pc # "listReleases")

\* 101 releases, the match is the last one: two calls, the bound for N = 101
C11_Witness ==
    /\ Len(releases) = PerPage + 1
    /\ release # Undefined
    /\ release.id = PerPage + 1
    /\ Len(ListCalls) = 2
    /\ pc = "glob"

----------------------------------------------------------------------------
(* C12 *)

UploadsOf(k) == {i \in CallIdx : IsUpload(calls[i]) /\ calls[i].file = k}
DeletesOf(k) == {i \in CallIdx : IsDelete(calls[i]) /\ calls[i].file = k}

\* C12: per plan file there are at most two uploads and one deletion; a
\* deletion directly follows the conflict answer to the file's first upload,
\* a second upload directly follows the deletion that succeeded, and the
\* first upload of the next file directly follows the successful upload of
\* the file before it.
C12_SingleShotRetry ==
    /\ \A i \in CallIdx :
          /\ IsDelete(calls[i]) =>
                /\ i > 1
                /\ IsConflict(calls[i - 1])
                /\ calls[i - 1].file = calls[i].file
                /\ \A j \in UploadsOf(calls[i].file) : j >= i - 1
          /\ IsUpload(calls[i]) =>
                IF \E j \in UploadsOf(calls[i].file) : j < i
                THEN /\ IsDelete(calls[i - 1])
                     /\ calls[i - 1].result = "ok"
                     /\ calls[i - 1].file = calls[i].file
                ELSE IF calls[i].file = 1
                     THEN \A j \in 1..(i - 1) :
                              ~IsUpload(calls[j]) /\ ~IsDelete(calls[j])
                     ELSE /\ i > 1
                          /\ IsOkUpload(calls[i - 1])
                          /\ calls[i - 1].file = calls[i].file - 1
    /\ \A k \in 1..Len(uniqueFilesToUpload) :
          /\ Cardinality(UploadsOf(k)) <= 2
          /\ Cardinality(DeletesOf(k)) <= 1
    /\ pc = "delete" => IsConflict(calls[Len(calls)])
    /\ pc = "retry" =>
          IsDelete(calls[Len(calls)]) /\ calls[Len(calls)].result = "ok"

\* conflict, deletion, retry, and then the first upload of the next file
C12_Witness ==
    \E i \in CallIdx :
        /\ IsConflict(calls[i])
        /\ i + 3 <= Len(calls)
        /\ IsDelete(calls[i + 1])
        /\ IsOkUpload(calls[i + 2])
        /\ IsUpload(calls[i + 3])
        /\ calls[i + 3].file = calls[i].file + 1

----------------------------------------------------------------------------
(* C13 *)

\* the i-th call is a first upload (not the retry after a deletion)
IsFirstUpload(i) == IsUpload(calls[i]) /\ (i = 1 \/ ~IsDelete(calls[i - 1]))

SnapshotLacks(nm) == \A a \in release.assets : a.name # nm

UnknownConflict(i) ==
    /\ IsFirstUpload(i)
    /\ calls[i].result = "conflict"
    /\ ~DenyRequested
    /\ SnapshotLacks(calls[i].name)

ConflictOnUnknownEndsRun ==
    /\ \A i \in CallIdx :
          UnknownConflict(i) =>
              /\ i = Len(calls)
              /\ pc = "done"
              /\ outcome = "InconsistentState"
              /\ output = Unset
    /\ outcome = "InconsistentState" =>
          calls # <<>> /\ UnknownConflict(Len(calls))

\* C13: with overwriting allowed, a conflict answer for a name that the
\* snapshot of the release does not hold ends the run (InconsistentState)
\* with that upload as its last remote call: no deletion, no retry; and the
\* snapshot, once taken, is never changed during the run.
C13_UnknownConflictIsFatal ==
    /\ []ConflictOnUnknownEndsRun
    /\ [][release # Undefined => release' = release]_vars

\* the conflicting asset is the one this run uploaded for an earlier file
C13_Witness ==
    /\ outcome = "InconsistentState"
    /\ externals = 0
    /\ Len(downloadUrls) = 1
    /\ downloadUrls[1][1] = FileName
    /\ fileIdx = 2

----------------------------------------------------------------------------
(* C14 *)

\* an answer the script does not handle: an error other than the not-found
\* of getReleaseByTag and the conflict of a first upload
FatalAnswer(i) ==
    \/ calls[i].result = "error"
    \/ IsDelete(calls[i]) /\ calls[i].result # "ok"
    \/ IsUpload(calls[i]) /\ ~IsFirstUpload(i) /\ calls[i].result # "ok"

\* C14: an unhandled failure of a remote call is the last remote call of the
\* run: the run has ended with that error, the file was neither retried nor
\* skipped, no listing follows a failed lookup, and no output is set.
C14_OtherFailuresAbort ==
    \A i \in CallIdx :
        FatalAnswer(i) =>
            /\ i = Len(calls)
            /\ pc = "done"
            /\ outcome = "TransportError"
            /\ output = Unset
            /\ (IsUpload(calls[i]) \/ IsDelete(calls[i])) =>
                  /\ fileIdx = calls[i].file
                  /\ Len(downloadUrls) = calls[i].file - 1

\* the retry after a successful deletion is answered with a second conflict
C14_Witness ==
    /\ Len(calls) >= 3
    /\ IsConflict(calls[Len(calls)])
    /\ IsDelete(calls[Len(calls) - 1])
    /\ calls[Len(calls) - 1].result = "ok"
    /\ outcome = "TransportError"

----------------------------------------------------------------------------
(* C15 *)

LastSegment(p) == p[Len(p)]

\* the k-th plan file has the base name of an earlier plan file
RepeatsBaseName(k) ==
    \E h \in 1..(k - 1) :
        LastSegment(uniqueFilesToUpload[h]) = LastSegment(uniqueFilesToUpload[k])

\* C15: a plan with two paths of one base name never succeeds and sets no
\* output.  The upload of the second such file is never answered with
\* success; when it is answered with a conflict, the asset of the first
\* file is on the release, and the run ends there with AssetConflict (deny)
\* or InconsistentState (name not in the snapshot), or goes on to delete the
\* asset of the snapshot, which was deleted for the first file already, so
\* that the deletion fails and ends the run.
C15_SameBaseNameNeverSucceeds ==
    /\ (Collected /\ \E k \in 1..Len(uniqueFilesToUpload) : RepeatsBaseName(k)) =>
          outcome # "success" /\ output = Unset
    /\ \A i \in CallIdx :
          (IsUpload(calls[i]) /\ RepeatsBaseName(calls[i].file)) =>
              /\ calls[i].result # "ok"
              /\ calls[i].result = "conflict" =>
                    /\ \E j \in 1..(i - 1) :
                          /\ IsOkUpload(calls[j])
                          /\ calls[j].name = calls[i].name
                          /\ \E a \in assets :
                                /\ a.release_id = release.id
                                /\ a.browser_download_url = calls[j].url
                    /\ IF DenyRequested
                       THEN outcome = "AssetConflict" /\ i = Len(calls)
                       ELSE IF \A a \in release.assets : a.name # calls[i].name
                       THEN outcome = "InconsistentState" /\ i = Len(calls)
                       ELSE \/ pc = "delete" /\ i = Len(calls)
                            \/ /\ i + 1 = Len(calls)
                               /\ IsDelete(calls[i + 1])
                               /\ calls[i + 1].result # "ok"
                               /\ outcome = "TransportError"
                               /\ \E j \in 1..(i - 1) :
                                     /\ IsDelete(calls[j])
                                     /\ calls[j].result = "ok"
                                     /\ calls[j].asset_id = calls[i + 1].asset_id

\* d1/a replaced the old asset a; for d2/a the deletion of the old id fails
C15_Witness ==
    /\ outcome = "TransportError"
    /\ Len(calls) >= 2
    /\ IsDelete(calls[Len(calls)])
    /\ calls[Len(calls)].result = "notFound"
    /\ RepeatsBaseName(fileIdx)
    /\ externals = 0

----------------------------------------------------------------------------
(* C16 *)

PlanNames ==
    {LastSegment(uniqueFilesToUpload[k]) : k \in 1..Len(uniqueFilesToUpload)}

\* C16: a deleteAsset call names an asset of the snapshot of the resolved
\* release whose name is the base name of the plan file whose upload was
\* just answered with a conflict; uploads go to the resolved release under
\* the file's base name; an asset whose name is no plan file's base name,
\* or that belongs to another release, is still there, and no other release
\* has got a new asset.
C16_DeletionFrame ==
    /\ \A i \in CallIdx :
          IsDelete(calls[i]) =>
              /\ i > 1
              /\ IsConflict(calls[i - 1])
              /\ calls[i - 1].name = LastSegment(uniqueFilesToUpload[calls[i].file])
              /\ \E a \in release.assets :
                    /\ a.id = calls[i].asset_id
                    /\ a.release_id = release.id
                    /\ a.name = calls[i - 1].name
    /\ \A i \in CallIdx :
          IsUpload(calls[i]) =>
              /\ calls[i].release_id = release.id
              /\ calls[i].name = LastSegment(uniqueFilesToUpload[calls[i].file])
    /\ \A a \in initialAssets :
          (release = Undefined \/ a.release_id # release.id \/ a.name \notin PlanNames)
              => a \in assets
    /\ \A a \in assets \ initialAssets :
          release # Undefined /\ a.release_id = release.id

\* an asset was replaced; its namesake on another release and the asset z
\* of the resolved release are untouched
C16_Witness ==
    /\ outcome = "success"
    /\ \E i \in CallIdx :
          /\ IsDelete(calls[i])
          /\ calls[i].result = "ok"
          /\ \E a \in assets :
                a.release_id # release.id /\ a.name = calls[i].name
    /\ \E a \in assets : a.release_id = release.id /\ a.name = "z"

----------------------------------------------------------------------------
(* C17 *)

\* the assets of the start whose name their release no longer holds
Missing ==
    {a0 \in initialAssets :
        ~\E a \in assets : a.release_id = a0.release_id /\ a.name = a0.name}

\* the i-th call is the successful deletion of a0 for the current file
DeletedLast(a0, i) ==
    /\ i >= 2
    /\ i <= Len(calls)
    /\ IsDelete(calls[i])
    /\ calls[i].result = "ok"
    /\ calls[i].asset_id = a0.id
    /\ calls[i].file = fileIdx

\* C17: a name that the release held at the start is missing only between
\* the deletion and the retry of the plan file of that base name, or, when
\* the run has ended, because that retry failed: the run ended in failure
\* with the failed retry upload as its last call, right after the successful
\* deletion of that asset.
C17_MissingOnlyAfterFailedRetry ==
    \A a0 \in Missing :
        /\ release # Undefined
        /\ a0.release_id = release.id
        /\ a0.name = LastSegment(uniqueFilesToUpload[fileIdx])
        /\ \/ pc = "retry" /\ DeletedLast(a0, Len(calls))
           \/ /\ pc = "done"
              /\ outcome = "TransportError"
              /\ output = Unset
              /\ DeletedLast(a0, Len(calls) - 1)
              /\ IsUpload(calls[Len(calls)])
              /\ calls[Len(calls)].result = "error"
              /\ calls[Len(calls)].name = a0.name

\* the run failed and the release has lost an asset it held at the start
C17_Witness ==
    /\ Failed
    /\ Missing # {}
    /\ \E a0 \in Missing : a0.name = "a"

============================================================================
